---- MODULE Spec2Model ----
(***************************************************************************)
(* Loss computation and hard-example mining of a single-shot detector      *)
(* (src/src/losses.py).                                                    *)
(*                                                                         *)
(* Numbers.  Tensors of floats are modelled by exact integers in fixed     *)
(* units; only finite values are modelled.  Box coordinates, encodings and *)
(* regression targets are in halves, logits and weights in units, losses   *)
(* computed by the loss functions in 1/10000.  Ratios (nms_threshold,      *)
(* max_negatives_per_positive) are pairs <<numerator, denominator>>.       *)
(* Anchors are indexed 0..NumAnchors-1 as in the code, images 1..batch.    *)
(***************************************************************************)
EXTENDS Integers, Sequences, FiniteSets

VARIABLES
    weights,                \* [batch][anchor] argument of both loss functions
    loc_targets,            \* [batch][anchor] -> 4-vector, regression targets
    cls_predictions,        \* [batch][anchor] -> logits, background first
    cls_targets,            \* [batch][anchor] -> one-hot targets
    cfg,                    \* keyword arguments of apply_hard_mining
    location_losses,        \* [batch][anchor] argument of apply_hard_mining
    cls_losses,             \* [batch][anchor] argument of apply_hard_mining
    matches,                \* [batch][anchor] argument of apply_hard_mining
    box_encodings,          \* [batch][anchor] -> 4-vector, encoded predicted boxes
    pc,                     \* position in apply_hard_mining
    i,                      \* loop index of `for i, box_locations in ...` (1-based)
    image_losses,           \* [anchor] combined score of the current image
    candidates,             \* suppression: anchors not yet examined
    selected,               \* suppression: indices kept so far, in order
    sel_hist,               \* per image: result of the ratio subsampling
    nms_hist,               \* per image: candidate list handed to the subsampling
    num_positives_list,
    num_negatives_list,
    mined_location_losses,
    mined_cls_losses,
    location_loss,          \* returned scalar
    cls_loss                \* returned scalar

vars == <<weights, loc_targets, cls_predictions, cls_targets, cfg, location_losses, cls_losses, matches, box_encodings, pc, i,
          image_losses, candidates, selected, sel_hist, nms_hist,
          num_positives_list, num_negatives_list, mined_location_losses,
          mined_cls_losses, location_loss, cls_loss>>

\* arguments of the loss functions, and of apply_hard_mining
raw == <<weights, loc_targets, cls_predictions, cls_targets>>
args == <<cfg, location_losses, cls_losses, matches, box_encodings>>

----------------------------------------------------------------------------
(* Bounds *)

NumAnchors == 3
MaxBatch == 2

AnchorIds == 0 .. (NumAnchors - 1)

----------------------------------------------------------------------------
(* Helpers over tensors *)

Max(a, b) == IF a >= b THEN a ELSE b
Min(a, b) == IF a <= b THEN a ELSE b

RECURSIVE ReduceSum(_)
\* tf.reduce_sum of a rank-1 tensor given as a sequence
ReduceSum(s) == IF s = <<>> THEN 0 ELSE s[1] + ReduceSum(Tail(s))

\* tf.gather(params, indices): params is [anchor -> value], indices a sequence
Gather(params, indices) == [k \in 1 .. Len(indices) |-> params[indices[k]]]

\* variant: exclusive prefix sums (the sum of the elements before each one)
RECURSIVE CumsumExclusive(_)
CumsumExclusive(s) ==
    IF s = <<>> THEN <<>>
    ELSE LET front == CumsumExclusive(SubSeq(s, 1, Len(s) - 1))
         IN  Append(front, IF front = <<>> THEN 0
                           ELSE front[Len(front)] + s[Len(s) - 1])

RECURSIVE Cumsum(_)
\* tf.cumsum (inclusive prefix sums)
Cumsum(s) ==
    IF s = <<>> THEN <<>>
    ELSE LET front == Cumsum(SubSeq(s, 1, Len(s) - 1))
         IN  Append(front, (IF front = <<>> THEN 0 ELSE front[Len(front)]) + s[Len(s)])

RECURSIVE Where(_, _)
\* tf.where(cond) followed by tf.squeeze: the 0-based positions at which
\* cond holds, ascending.  `base` is the position of the first element.
Where(cond, base) ==
    IF cond = <<>> THEN <<>>
    ELSE (IF cond[1] THEN <<base>> ELSE <<>>) \o Where(Tail(cond), base + 1)

\* variant: the product rounded to the nearest integer, halves up
RoundMul(ratio, n) == (2 * ratio[1] * n + ratio[2]) \div (2 * ratio[2])

\* tf.to_int32 of (ratio * tf.to_float(n)) for ratio = <<num, den>>, den > 0:
\* the conversion truncates toward zero.
TruncMul(ratio, n) ==
    LET p == ratio[1] * n
    IN  IF p >= 0 THEN p \div ratio[2] ELSE -((-p) \div ratio[2])

----------------------------------------------------------------------------
(* _subsample_selection_to_desired_neg_pos_ratio *)

\* line 136: which of the candidates are positive (matched) anchors
PositivesIndicator(match, indices) ==
    [k \in 1 .. Len(indices) |-> match[indices[k]] >= 0]

\* tf.to_int32 of a boolean tensor
ToInt32(indicator) == [k \in 1 .. Len(indicator) |-> IF indicator[k] THEN 1 ELSE 0]

\* lines 142-145: the negative budget
MaxNegatives(min_negatives_per_image, max_negatives_per_positive, num_positives) ==
    Max(min_negatives_per_image, TruncMul(max_negatives_per_positive, num_positives))

\* variant: strict comparison with the budget
TopKNegativesIndicatorStrict(negatives_indicator, max_negatives) ==
    LET seen == Cumsum(ToInt32(negatives_indicator))
    IN  [k \in 1 .. Len(negatives_indicator) |-> seen[k] < max_negatives]

\* lines 147-150: true where at most max_negatives negatives have been seen
TopKNegativesIndicator(negatives_indicator, max_negatives) ==
    LET seen == Cumsum(ToInt32(negatives_indicator))
    IN  [k \in 1 .. Len(negatives_indicator) |-> seen[k] <= max_negatives]

\* variant: the positives are not or-ed in
SubsampledSelectionIndicesTopK(positives_indicator, top_k_negatives_indicator) ==
    Where(top_k_negatives_indicator, 0)

\* lines 151-154: the 0-based positions kept, every positive among them
SubsampledSelectionIndices(positives_indicator, top_k_negatives_indicator) ==
    Where([k \in 1 .. Len(positives_indicator) |->
              positives_indicator[k] \/ top_k_negatives_indicator[k]], 0)

\* variant: the positions themselves are returned
GatherPositions(indices, positions) == positions

\* line 155: tf.gather(indices, positions), positions 0-based
GatherIndices(indices, positions) ==
    [k \in 1 .. Len(positions) |-> indices[positions[k] + 1]]

\* indices: sequence of anchor ids; match: [anchor -> Int]
SubsampleSelection(indices, match, max_negatives_per_positive, min_negatives_per_image) ==
    LET M == Len(indices)
        positives_indicator == PositivesIndicator(match, indices)
        negatives_indicator == [k \in 1 .. M |-> ~positives_indicator[k]]
        num_positives == ReduceSum(ToInt32(positives_indicator))
        max_negatives == MaxNegatives(min_negatives_per_image,
                                      max_negatives_per_positive, num_positives)
        top_k_negatives_indicator ==
            TopKNegativesIndicator(negatives_indicator, max_negatives)
        \* tf.squeeze drops the trailing axis of tf.where (and the leading one
        \* when a single position is left, which changes no value below)
        subsampled_selection_indices ==
            SubsampledSelectionIndices(positives_indicator, top_k_negatives_indicator)
        selected_indices == GatherIndices(indices, subsampled_selection_indices)
    IN  [selected_indices |-> selected_indices,
         num_positives |-> num_positives,
         num_negatives |-> Len(subsampled_selection_indices) - num_positives]

----------------------------------------------------------------------------
(* Boxes: batch_decode and the overlap test of tf.image.non_max_suppression *)

\* anchors: a row of square boxes [ymin, xmin, ymax, xmax], side by side
Anchors == [a \in AnchorIds |-> <<0, 4 * a, 4, 4 * a + 4>>]

\* batch_decode for one anchor: the code <<ty, tx, th, tw>> moves the
\* anchor's corner by (ty, tx) and changes its size by (th, tw).
Decode(code, anchor) ==
    <<anchor[1] + code[1], anchor[2] + code[2],
      anchor[3] + code[1] + code[3], anchor[4] + code[2] + code[4]>>

BatchDecode(encodings, anchors) ==
    [a \in DOMAIN anchors |-> Decode(encodings[a], anchors[a])]

\* intersection area and union area of two boxes, <<0, 1>> when either box
\* has no area
Overlap(b1, b2) ==
    LET ymin1 == Min(b1[1], b1[3])  ymax1 == Max(b1[1], b1[3])
        xmin1 == Min(b1[2], b1[4])  xmax1 == Max(b1[2], b1[4])
        ymin2 == Min(b2[1], b2[3])  ymax2 == Max(b2[1], b2[3])
        xmin2 == Min(b2[2], b2[4])  xmax2 == Max(b2[2], b2[4])
        area1 == (ymax1 - ymin1) * (xmax1 - xmin1)
        area2 == (ymax2 - ymin2) * (xmax2 - xmin2)
        inter == Max(Min(ymax1, ymax2) - Max(ymin1, ymin2), 0)
                 * Max(Min(xmax1, xmax2) - Max(xmin1, xmin2), 0)
    IN  IF area1 <= 0 \/ area2 <= 0 THEN <<0, 1>>
        ELSE <<inter, area1 + area2 - inter>>

\* variant: boxes at the threshold are suppressed too
IouAtLeast(b1, b2, threshold) ==
    LET o == Overlap(b1, b2)
    IN  o[1] * threshold[2] >= threshold[1] * o[2]

\* IoU(b1, b2) > threshold, threshold = <<num, den>>
IouAbove(b1, b2, threshold) ==
    LET o == Overlap(b1, b2)
    IN  o[1] * threshold[2] > threshold[1] * o[2]

----------------------------------------------------------------------------
(* localization_loss and classification_loss *)

Abs(x) == IF x >= 0 THEN x ELSE -x

\* line 19, one coordinate: abs_diff in halves, the result in 1/10000:
\* 0.5 * abs_diff^2 below 1.0, abs_diff - 0.5 from 1.0 on
SmoothL1(abs_diff) ==
    IF abs_diff < 2 THEN 1250 * abs_diff * abs_diff ELSE 5000 * abs_diff - 5000

\* predictions, targets: [batch][anchor] -> 4-vector; weights: [batch][anchor]
LocalizationLoss(predictions, targets, anchor_weights) ==
    [b \in DOMAIN predictions |->
        [a \in DOMAIN predictions[b] |->
            anchor_weights[b][a] *
                ReduceSum([c \in 1 .. 4 |->
                    SmoothL1(Abs(predictions[b][a][c] - targets[b][a][c]))])]]

\* log(1 + exp(-x)) for x in 0..3, in 1/10000, rounded
Log1pExpNeg(x) == <<6931, 3133, 1269, 486>>[x + 1]

\* tf.nn.sigmoid_cross_entropy_with_logits for one element, in 1/10000:
\* max(x, 0) - x * z + log(1 + exp(-abs(x)))
SigmoidCrossEntropy(z, x) ==
    10000 * (Max(x, 0) - x * z) + Log1pExpNeg(Abs(x))

\* variant: the weights are left out
ClassificationLossUnweighted(predictions, targets, anchor_weights) ==
    [b \in DOMAIN predictions |->
        [a \in DOMAIN predictions[b] |->
            ReduceSum([c \in 1 .. Len(predictions[b][a]) |->
                SigmoidCrossEntropy(targets[b][a][c], predictions[b][a][c])])]]

\* predictions, targets: [batch][anchor] -> vector over num_classes + 1
ClassificationLoss(predictions, targets, anchor_weights) ==
    [b \in DOMAIN predictions |->
        [a \in DOMAIN predictions[b] |->
            ReduceSum([c \in 1 .. Len(predictions[b][a]) |->
                anchor_weights[b][a] *
                    SigmoidCrossEntropy(targets[b][a][c], predictions[b][a][c])])]]

----------------------------------------------------------------------------
(* Input domains *)

LossPairs == {<<1, 2>>, <<2, 0>>}          \* <<location loss, cls loss>> of one anchor
MatchValues == {-1, 0}
Encodings == {<<0, 0, 0, 0>>, <<0, 2, 0, 0>>}
LossWeights == {<<1, 1>>, <<2, 0>>}        \* <<loc_loss_weight, cls_loss_weight>>
HardExampleCaps == {2, 3000}
NmsThresholds == {<<1, 4>>, <<1, 3>>}
NegPosRatios == {<<1, 2>>, <<3, 2>>}
MinNegatives == {0, 1}
\* <<predictions, targets>> of one anchor, in halves
LocCases == { << <<0, 0, 0, 0>>, <<0, 0, 0, 0>> >>,
              << <<0, 2, 0, 0>>, <<1, 0, 0, 0>> >>,
              << <<0, 2, 0, 0>>, <<0, -1, 3, 0>> >> }
\* <<logits, one-hot targets>> of one anchor, background first
ClsCases == { << <<0, 0>>, <<1, 0>> >>,
              << <<-1, 2>>, <<0, 1>> >>,
              << <<3, -2>>, <<0, 1>> >> }
PairLogits == {<<0, 0>>, <<-1, 2>>}

Configs(lossWeights, caps, thresholds, ratios, mins) ==
    { [loc_loss_weight |-> w[1], cls_loss_weight |-> w[2],
       num_hard_examples |-> c, nms_threshold |-> t,
       max_negatives_per_positive |-> r, min_negatives_per_image |-> m] :
      w \in lossWeights, c \in caps, t \in thresholds, r \in ratios, m \in mins }

\* what one anchor of one image contributes to the arguments
Profiles(pairs, matchValues, encodings) ==
    { [loc |-> p[1], cls |-> p[2], match |-> m, enc |-> e] :
      p \in pairs, m \in matchValues, e \in encodings }

----------------------------------------------------------------------------
(* apply_hard_mining *)

batch_size == Len(location_losses)

\* state on entry to apply_hard_mining, before the loop
Entry ==
    /\ i = 1
    /\ image_losses = <<>>
    /\ candidates = {}
    /\ selected = <<>>
    /\ sel_hist = <<>>
    /\ nms_hist = <<>>
    /\ num_positives_list = <<>>
    /\ num_negatives_list = <<>>
    /\ mined_location_losses = <<>>
    /\ mined_cls_losses = <<>>
    /\ location_loss = 0
    /\ cls_loss = 0

\* apply_hard_mining called on per-anchor losses given directly
InitMining(sizes, profiles, configs) ==
    /\ weights = <<>>
    /\ loc_targets = <<>>
    /\ cls_predictions = <<>>
    /\ cls_targets = <<>>
    /\ cfg \in configs
    /\ \E n \in sizes :
         \E t \in [1 .. n -> [AnchorIds -> profiles]] :
            /\ location_losses = [k \in 1 .. n |-> [a \in AnchorIds |-> t[k][a].loc]]
            /\ cls_losses = [k \in 1 .. n |-> [a \in AnchorIds |-> t[k][a].cls]]
            /\ matches = [k \in 1 .. n |-> [a \in AnchorIds |-> t[k][a].match]]
            /\ box_encodings = [k \in 1 .. n |-> [a \in AnchorIds |-> t[k][a].enc]]
    /\ pc = "loop"
    /\ Entry

\* one image; losses, matches, encodings, loss weights, the cap and the ratio
\* configuration varied
Init ==
    InitMining({1}, Profiles(LossPairs, MatchValues, Encodings),
               Configs(LossWeights, HardExampleCaps, {<<1, 4>>}, NegPosRatios, MinNegatives))

\* batches of several images; the matches and the loss weights varied, the
\* losses distinct for every anchor and image
InitBatch ==
    /\ weights = <<>>
    /\ loc_targets = <<>>
    /\ cls_predictions = <<>>
    /\ cls_targets = <<>>
    /\ cfg \in Configs(LossWeights, {3000}, {<<1, 4>>}, {<<1, 2>>}, MinNegatives)
    /\ \E n \in 1 .. MaxBatch :
         /\ location_losses = [k \in 1 .. n |-> [a \in AnchorIds |-> a + k]]
         /\ cls_losses = [k \in 1 .. n |-> [a \in AnchorIds |-> 2 * (NumAnchors - a)]]
         /\ matches \in [1 .. n -> [AnchorIds -> MatchValues]]
         /\ box_encodings = [k \in 1 .. n |-> [a \in AnchorIds |->
                                IF a % 2 = 0 THEN <<0, 2, 0, 0>> ELSE <<0, 0, 0, 0>>]]
    /\ pc = "loop"
    /\ Entry

\* one image, the inputs of the suppression varied
InitNms ==
    InitMining({1}, Profiles(LossPairs, {-1}, Encodings),
               Configs(LossWeights, HardExampleCaps, NmsThresholds, {<<3, 1>>}, {0}))

\* the loss functions on one image
InitLoss ==
    /\ \E t \in [AnchorIds -> {0, 1, 2} \X LocCases \X ClsCases] :
         /\ weights = <<[a \in AnchorIds |-> t[a][1]]>>
         /\ box_encodings = <<[a \in AnchorIds |-> t[a][2][1]]>>
         /\ loc_targets = <<[a \in AnchorIds |-> t[a][2][2]]>>
         /\ cls_predictions = <<[a \in AnchorIds |-> t[a][3][1]]>>
         /\ cls_targets = <<[a \in AnchorIds |-> t[a][3][2]]>>
    /\ matches = <<[a \in AnchorIds |-> -1]>>
    /\ cfg \in Configs({<<1, 1>>}, {3000}, {<<99, 100>>}, {<<3, 1>>}, {0})
    /\ location_losses = <<>>
    /\ cls_losses = <<>>
    /\ pc = "losses"
    /\ Entry

OneHot(match) == IF match >= 0 THEN <<0, 1>> ELSE <<1, 0>>

\* two runs on one image each, laid side by side as images 1 and 2: they
\* agree on everything except the data of one anchor z whose weight is 0
InitPair ==
    /\ \E t \in [AnchorIds -> {0, 1} \X Encodings \X {<<-1, 2>>} \X MatchValues],
          z \in AnchorIds, v \in Encodings \X PairLogits \X MatchValues :
         /\ t[z][1] = 0
         /\ LET u == [t EXCEPT ![z] = <<0, v[1], v[2], v[3]>>]
                run == <<t, u>>
            IN  /\ weights = [k \in 1 .. 2 |-> [a \in AnchorIds |-> run[k][a][1]]]
                /\ box_encodings = [k \in 1 .. 2 |-> [a \in AnchorIds |-> run[k][a][2]]]
                /\ loc_targets = [k \in 1 .. 2 |-> [a \in AnchorIds |-> <<0, 0, 0, 0>>]]
                /\ cls_predictions = [k \in 1 .. 2 |-> [a \in AnchorIds |-> run[k][a][3]]]
                /\ cls_targets = [k \in 1 .. 2 |-> [a \in AnchorIds |-> OneHot(run[k][a][4])]]
                /\ matches = [k \in 1 .. 2 |-> [a \in AnchorIds |-> run[k][a][4]]]
    /\ cfg \in Configs({<<1, 1>>}, {3000}, {<<1, 4>>}, {<<3, 2>>, <<3, 1>>}, {0})
    /\ location_losses = <<>>
    /\ cls_losses = <<>>
    /\ pc = "losses"
    /\ Entry

\* the per-anchor losses are computed from the predictions, the encoded
\* predicted boxes being the box encodings mined afterwards
ComputeLosses ==
    /\ pc = "losses"
    /\ location_losses' = LocalizationLoss(box_encodings, loc_targets, weights)
    /\ cls_losses' = ClassificationLoss(cls_predictions, cls_targets, weights)
    /\ pc' = "loop"
    /\ UNCHANGED <<raw, cfg, matches, box_encodings, i, image_losses, candidates,
                   selected, sel_hist, nms_hist, num_positives_list,
                   num_negatives_list, mined_location_losses, mined_cls_losses,
                   location_loss, cls_loss>>

\* variant: the weighted ranking scores are summed
MinedLossWeighted(losses, selected_indices) ==
    ReduceSum(Gather([a \in DOMAIN losses |-> losses[a] * cfg.loc_loss_weight],
                     selected_indices))

\* lines 104-109: the original per-anchor losses summed over the selection
MinedLoss(losses, selected_indices) == ReduceSum(Gather(losses, selected_indices))

\* combined score of line 92
ImageLosses(cls, loc, cls_loss_weight, loc_loss_weight) ==
    [a \in DOMAIN cls |-> cls[a] * cls_loss_weight + loc[a] * loc_loss_weight]

\* loop head: the score of image i is computed and suppression starts
BeginImage ==
    /\ pc = "loop"
    /\ i <= batch_size
    /\ image_losses' = ImageLosses(cls_losses[i], location_losses[i],
                                   cfg.cls_loss_weight, cfg.loc_loss_weight)
    /\ candidates' = AnchorIds
    /\ selected' = <<>>
    /\ pc' = "nms"
    /\ UNCHANGED <<raw, args, i,
                   sel_hist, nms_hist, num_positives_list, num_negatives_list,
                   mined_location_losses, mined_cls_losses, location_loss, cls_loss>>

\* variant: ascending score order
TopCandidatesLowest(cands, scores) ==
    {c \in cands : \A d \in cands : scores[c] <= scores[d]}

\* the anchors suppression may examine next: the highest score not yet examined
TopCandidates(cands, scores) ==
    {c \in cands : \A d \in cands : scores[d] <= scores[c]}

\* c is suppressed by a box already kept
Suppressed(c, kept, boxes, threshold) ==
    \E k \in 1 .. Len(kept) : IouAbove(boxes[c], boxes[kept[k]], threshold)

\* tf.image.non_max_suppression, one candidate: the next candidate in
\* descending score order (any of them on a tie) is kept unless it overlaps
\* a box kept before it
NmsStep ==
    /\ pc = "nms"
    /\ candidates # {}
    /\ Len(selected) < cfg.num_hard_examples
    /\ \E c \in TopCandidates(candidates, image_losses) :
         /\ candidates' = candidates \ {c}
         /\ selected' =
              IF Suppressed(c, selected, BatchDecode(box_encodings[i], Anchors),
                            cfg.nms_threshold)
              THEN selected ELSE Append(selected, c)
    /\ UNCHANGED <<raw, args, pc, i,
                   image_losses, sel_hist, nms_hist, num_positives_list,
                   num_negatives_list, mined_location_losses, mined_cls_losses,
                   location_loss, cls_loss>>

\* suppression has returned: subsample, gather and append (lines 98-109)
MineImage ==
    /\ pc = "nms"
    /\ (candidates = {} \/ Len(selected) >= cfg.num_hard_examples)
    /\ LET r == SubsampleSelection(selected, matches[i],
                                   cfg.max_negatives_per_positive,
                                   cfg.min_negatives_per_image)
       IN  /\ sel_hist' = Append(sel_hist, r.selected_indices)
           /\ nms_hist' = Append(nms_hist, selected)
           /\ num_positives_list' = Append(num_positives_list, r.num_positives)
           /\ num_negatives_list' = Append(num_negatives_list, r.num_negatives)
           /\ mined_location_losses' =
                Append(mined_location_losses,
                       MinedLoss(location_losses[i], r.selected_indices))
           /\ mined_cls_losses' =
                Append(mined_cls_losses,
                       MinedLoss(cls_losses[i], r.selected_indices))
    /\ i' = i + 1
    /\ pc' = "loop"
    /\ UNCHANGED <<raw, args,
                   image_losses, candidates, selected, location_loss, cls_loss>>

\* after the loop: the batch sums are returned (lines 111-113)
Return ==
    /\ pc = "loop"
    /\ i > batch_size
    /\ location_loss' = ReduceSum(mined_location_losses)
    /\ cls_loss' = ReduceSum(mined_cls_losses)
    /\ pc' = "done"
    /\ UNCHANGED <<raw, args, i,
                   image_losses, candidates, selected, sel_hist, nms_hist,
                   num_positives_list, num_negatives_list, mined_location_losses,
                   mined_cls_losses>>

Next == BeginImage \/ NmsStep \/ MineImage \/ Return

NextLoss == ComputeLosses

NextPipeline == ComputeLosses \/ BeginImage \/ NmsStep \/ MineImage \/ Return

Spec == Init /\ [][Next]_vars

SpecBatch == InitBatch /\ [][Next]_vars

\* entering the loop body and the steps of the suppression are straight-line
\* code: once enabled they are eventually taken
SpecNms == InitNms /\ [][Next]_vars /\ WF_vars(BeginImage) /\ WF_vars(NmsStep)

SpecLoss == InitLoss /\ [][NextLoss]_vars

SpecPair == InitPair /\ [][NextPipeline]_vars

----------------------------------------------------------------------------
(* Vocabulary of the properties, stated on the inputs and the recorded     *)
(* results only                                                            *)

Range(s) == {s[j] : j \in 1 .. Len(s)}

\* the images mined so far
Mined == 1 .. Len(sel_hist)

Positive(k, a) == matches[k][a] >= 0

\* combined ranking score of anchor a of image k
Score(k, a) ==
    cfg.cls_loss_weight * cls_losses[k][a] + cfg.loc_loss_weight * location_losses[k][a]

\* positions of the positive and of the negative candidates of image k
PosPositions(k) == {j \in 1 .. Len(nms_hist[k]) : Positive(k, nms_hist[k][j])}
NegPositions(k) == {j \in 1 .. Len(nms_hist[k]) : ~Positive(k, nms_hist[k][j])}

\* floor(ratio * n) for a non-negative ratio
FloorMul(ratio, n) ==
    CHOOSE b \in 0 .. (ratio[1] * n) :
        b * ratio[2] <= ratio[1] * n /\ ratio[1] * n < (b + 1) * ratio[2]

\* the negative budget for n positives
BudgetFor(n) ==
    LET f == FloorMul(cfg.max_negatives_per_positive, n)
    IN  IF cfg.min_negatives_per_image >= f THEN cfg.min_negatives_per_image ELSE f

\* the candidates of image k that the helper has to keep: the positives and
\* the first BudgetFor(number of positives) negatives, in candidate order
ExpectedSelection(k) ==
    LET cand == nms_hist[k]
        budget == BudgetFor(Cardinality(PosPositions(k)))
        Keep(j) == \/ Positive(k, cand[j])
                   \/ Cardinality({q \in NegPositions(k) : q <= j}) <= budget
        kept == SelectSeq([j \in 1 .. Len(cand) |-> j], Keep)
    IN  [q \in 1 .. Len(kept) |-> cand[kept[q]]]

\* boxes of image k overlap above the suppression threshold
IouExceeds(k, a, b) ==
    LET boxes == BatchDecode(box_encodings[k], Anchors)
        o == Overlap(boxes[a], boxes[b])
    IN  o[1] * cfg.nms_threshold[2] > cfg.nms_threshold[1] * o[2]

\* list is a (possibly unfinished) greedy suppression of image k: bounded,
\* pairwise below the threshold, and each entry had the highest score among
\* the anchors not kept and not suppressed before it
GreedyPrefix(k, list) ==
    /\ Len(list) <= cfg.num_hard_examples
    /\ \A q \in 1 .. Len(list) : list[q] \in AnchorIds
    /\ \A j, q \in 1 .. Len(list) : j < q =>
          list[j] # list[q] /\ ~IouExceeds(k, list[j], list[q])
    /\ \A q \in 1 .. Len(list) : \A a \in AnchorIds :
          (\A j \in 1 .. (q - 1) : list[j] # a /\ ~IouExceeds(k, a, list[j]))
              => Score(k, a) <= Score(k, list[q])

\* list is a finished greedy suppression: nothing is left out unless it is
\* suppressed by a kept anchor or the cap is reached
GreedyComplete(k, list) ==
    /\ GreedyPrefix(k, list)
    /\ \A a \in AnchorIds \ Range(list) :
          \/ Len(list) = cfg.num_hard_examples
          \/ \E j \in 1 .. Len(list) : IouExceeds(k, a, list[j])

----------------------------------------------------------------------------
(* Properties *)

\* C1: mining never drops a positive anchor: the selection returned by the
\* ratio subsampling contains every candidate whose match is >= 0, and the
\* returned num_positives is the number of such candidates.
C1_PositivesKept ==
    \A k \in Mined :
        /\ \A j \in PosPositions(k) : nms_hist[k][j] \in Range(sel_hist[k])
        /\ num_positives_list[k] = Cardinality(PosPositions(k))

\* a positive candidate ranked after a negative that was dropped
C1_Witness ==
    \E k \in Mined : \E j \in NegPositions(k) : \E q \in PosPositions(k) :
        /\ j < q
        /\ nms_hist[k][j] \notin Range(sel_hist[k])
        /\ nms_hist[k][q] \in Range(sel_hist[k])

\* C2: mining never exceeds the negative budget: the returned num_negatives,
\* and the number of selected indices whose match is < 0, are at most
\* max(min_negatives_per_image, floor(max_negatives_per_positive * num_positives)).
C2_NegativeBudget ==
    \A k \in Mined :
        /\ num_negatives_list[k] <= BudgetFor(num_positives_list[k])
        /\ Cardinality({q \in 1 .. Len(sel_hist[k]) : ~Positive(k, sel_hist[k][q])})
              <= BudgetFor(num_positives_list[k])

\* the product is not an integer, the budget is positive and it binds
C2_Witness ==
    \E k \in Mined :
        /\ (cfg.max_negatives_per_positive[1] * num_positives_list[k])
              % cfg.max_negatives_per_positive[2] # 0
        /\ cfg.min_negatives_per_image < BudgetFor(num_positives_list[k])
        /\ num_negatives_list[k] = BudgetFor(num_positives_list[k])
        /\ Cardinality(NegPositions(k)) > num_negatives_list[k]

\* C3: the selection is exactly the positives of the candidate list together
\* with the first `budget` negatives in candidate order, listed in candidate
\* order; when nothing is suppressed or capped and the negatives fit in the
\* budget, the selection is all anchors.
C3_ExactSelection ==
    \A k \in Mined :
        /\ sel_hist[k] = ExpectedSelection(k)
        /\ (/\ Len(nms_hist[k]) = NumAnchors
            /\ Cardinality(NegPositions(k)) <= BudgetFor(Cardinality(PosPositions(k))))
              => (sel_hist[k] = nms_hist[k] /\ Range(sel_hist[k]) = AnchorIds)

\* some negatives kept, a later negative dropped, a positive kept after it
C3_Witness ==
    \E k \in Mined : \E j1, j2 \in NegPositions(k) : \E q \in PosPositions(k) :
        /\ j1 < j2 /\ j2 < q
        /\ nms_hist[k][j1] \in Range(sel_hist[k])
        /\ nms_hist[k][j2] \notin Range(sel_hist[k])
        /\ Len(sel_hist[k]) = 2

\* C4: with no positive among an image's candidates and
\* min_negatives_per_image = 0, the image's selection is empty and both of
\* its mined losses are 0.
C4_NoPositivesNothingMined ==
    \A k \in Mined :
        (PosPositions(k) = {} /\ cfg.min_negatives_per_image = 0)
            => /\ sel_hist[k] = <<>>
               /\ mined_location_losses[k] = 0
               /\ mined_cls_losses[k] = 0

\* candidates with positive losses, all negative, none mined
C4_Witness ==
    \E k \in Mined :
        /\ PosPositions(k) = {} /\ cfg.min_negatives_per_image = 0
        /\ Len(nms_hist[k]) >= 2
        /\ \A j \in 1 .. Len(nms_hist[k]) :
              location_losses[k][nms_hist[k][j]] > 0
        /\ sel_hist[k] = <<>>
        /\ mined_location_losses[k] = 0

\* C5: for any anchor with weight 0, localization_loss and
\* classification_loss return exactly 0 for that anchor, whatever its
\* predictions and targets.
C5_ZeroWeightZeroLoss ==
    pc # "losses" =>
        \A b \in 1 .. Len(weights) : \A a \in AnchorIds :
            weights[b][a] = 0 =>
                location_losses[b][a] = 0 /\ cls_losses[b][a] = 0

\* a zero-weight anchor whose prediction misses its target, next to a
\* weighted anchor with the same data and non-zero losses
C5_Witness ==
    /\ pc # "losses"
    /\ \E a, c \in AnchorIds :
          /\ weights[1][a] = 0 /\ weights[1][c] = 2
          /\ box_encodings[1][a] # loc_targets[1][a]
          /\ box_encodings[1][c] = box_encodings[1][a]
          /\ loc_targets[1][c] = loc_targets[1][a]
          /\ cls_predictions[1][c] = cls_predictions[1][a]
          /\ cls_targets[1][c] = cls_targets[1][a]
          /\ location_losses[1][a] = 0 /\ cls_losses[1][a] = 0
          /\ location_losses[1][c] > 0 /\ cls_losses[1][c] > 0

\* C6: an anchor with weight 0 does not influence the loss: two runs that
\* agree on everything except the box encoding, logits, targets or match of
\* an anchor whose weight is 0 return equal scalars.  The two runs are the
\* two one-image slices of the state; the scalars a run on one image returns
\* are that image's mined sums.  Runs with tied scores are left out, so that
\* no difference rests on the order of equal scores.
C6_ZeroWeightNoInfluence ==
    (/\ pc = "done"
     /\ Len(weights) = 2
     /\ weights[1] = weights[2]
     /\ \E z \in AnchorIds :
           /\ weights[1][z] = 0
           /\ \A a \in AnchorIds \ {z} :
                 /\ box_encodings[1][a] = box_encodings[2][a]
                 /\ loc_targets[1][a] = loc_targets[2][a]
                 /\ cls_predictions[1][a] = cls_predictions[2][a]
                 /\ cls_targets[1][a] = cls_targets[2][a]
                 /\ matches[1][a] = matches[2][a]
     /\ \A k \in 1 .. 2 : \A a, b \in AnchorIds :
           a # b => Score(k, a) # Score(k, b))
        => /\ mined_location_losses[1] = mined_location_losses[2]
           /\ mined_cls_losses[1] = mined_cls_losses[2]

\* C7: the final selection of every image has no duplicates, is drawn from
\* the suppression-filtered candidate list (so it is no longer than it), and
\* every candidate is a valid anchor index.
C7_SelectionWellFormed ==
    \A k \in Mined :
        /\ \A p, q \in 1 .. Len(sel_hist[k]) : p # q => sel_hist[k][p] # sel_hist[k][q]
        /\ Range(sel_hist[k]) \subseteq Range(nms_hist[k])
        /\ Len(sel_hist[k]) <= Len(nms_hist[k])
        /\ Range(nms_hist[k]) \subseteq AnchorIds

\* suppression removed an anchor and the subsampling another one
C7_Witness ==
    \E k \in Mined :
        /\ Len(nms_hist[k]) < NumAnchors
        /\ Len(sel_hist[k]) < Len(nms_hist[k])
        /\ Len(sel_hist[k]) >= 1
        /\ sel_hist[k][1] # 0

\* every list the suppression has built, finished or not, is greedy
C8_Greedy ==
    /\ pc = "nms" => GreedyPrefix(i, selected)
    /\ \A k \in 1 .. Len(nms_hist) : GreedyComplete(k, nms_hist[k])

\* the suppression of the current image has returned its list
C8_Returned ==
    pc = "nms" /\ (candidates = {} \/ Len(selected) >= cfg.num_hard_examples)

\* C8: the greedy suppression of an image terminates; at every step it keeps
\* the not-yet-suppressed anchor with the highest combined score and
\* suppresses those whose IoU with it exceeds nms_threshold; its result has
\* at most num_hard_examples entries and no two of them overlap above the
\* threshold.
C8_GreedySuppression ==
    /\ []C8_Greedy
    /\ (pc = "loop" /\ i <= Len(location_losses)) ~> C8_Returned

\* a finished suppression that kept two anchors out of score order of their
\* indices and suppressed a third, below the cap
C8_Witness ==
    /\ pc = "done"
    /\ Len(nms_hist[1]) = NumAnchors - 1
    /\ Len(nms_hist[1]) < cfg.num_hard_examples
    /\ Score(1, nms_hist[1][1]) > Score(1, nms_hist[1][2])
    /\ nms_hist[1][1] > nms_hist[1][2]

\* sum over the selection of image k of the original per-anchor losses
RECURSIVE SumOver(_, _)
SumOver(losses, idx) ==
    IF idx = <<>> THEN 0 ELSE losses[Head(idx)] + SumOver(losses, Tail(idx))

\* sum of SumOver over the images 1..n
RECURSIVE BatchSum(_, _)
BatchSum(losses, n) ==
    IF n = 0 THEN 0 ELSE BatchSum(losses, n - 1) + SumOver(losses[n], sel_hist[n])

\* C9: the returned scalars are the sums, over all images, of the original
\* localization and classification losses over that image's final selection;
\* the loss weights only rank and never scale the sums; each image's
\* selection is determined by that image's own slice.
C9_BatchSums ==
    /\ \A k \in Mined :
          /\ GreedyComplete(k, nms_hist[k])
          /\ sel_hist[k] = ExpectedSelection(k)
          /\ mined_location_losses[k] = SumOver(location_losses[k], sel_hist[k])
          /\ mined_cls_losses[k] = SumOver(cls_losses[k], sel_hist[k])
    /\ pc = "done" =>
          /\ Len(sel_hist) = Len(location_losses)
          /\ location_loss = BatchSum(location_losses, Len(location_losses))
          /\ cls_loss = BatchSum(cls_losses, Len(cls_losses))

\* a finished batch of several images with different selections, one of
\* them subsampled, under loss weights other than 1
C9_Witness ==
    /\ pc = "done"
    /\ Len(sel_hist) = MaxBatch
    /\ cfg.loc_loss_weight = 2
    /\ sel_hist[1] # sel_hist[MaxBatch]
    /\ Len(sel_hist[1]) < Len(nms_hist[1])
    /\ sel_hist[MaxBatch] # <<>>
    /\ location_loss > 0

\* C10: the negatives kept by mining are the hardest ones: a negative
\* candidate dropped by the ratio subsampling never has a higher combined
\* score than a negative that is kept.
C10_HardestNegativesKept ==
    \A k \in Mined : \A j, q \in NegPositions(k) :
        (/\ nms_hist[k][j] \in Range(sel_hist[k])
         /\ nms_hist[k][q] \notin Range(sel_hist[k]))
            => Score(k, nms_hist[k][q]) <= Score(k, nms_hist[k][j])

\* a kept negative and a dropped one of strictly lower score and lower index
C10_Witness ==
    \E k \in Mined : \E j, q \in NegPositions(k) :
        /\ nms_hist[k][j] \in Range(sel_hist[k])
        /\ nms_hist[k][q] \notin Range(sel_hist[k])
        /\ Score(k, nms_hist[k][q]) < Score(k, nms_hist[k][j])
        /\ nms_hist[k][q] < nms_hist[k][j]

====
